---- MODULE Spec2Model ----
(***************************************************************************)
(* A model of .github/scripts/pr_review.py: one run of main(), which reads *)
(* the guidelines, fetches a pull request, plans batches of files, invokes *)
(* the Claude CLI once per batch, validates the proposed comments and      *)
(* posts (or logs) the review.                                             *)
(*                                                                         *)
(* Python values that come from outside (the CLI stdout, the model's     *)
(* JSON) are tagged records [t |-> <type>, v |-> <value>], so that the     *)
(* code's reactions to values of an unexpected type can be stated.  A text *)
(* is a sequence of tokens: Ch(s) is a run of characters, Doc(j) is the    *)
(* serialisation of the JSON value j.                                      *)
(***************************************************************************)
EXTENDS Integers, Sequences, FiniteSets, TLC

VARIABLES
    pc,             \* where the run is: the next step of main / review_pr
    token,          \* GITHUB_TOKEN is set
    claude_md,      \* the guidelines text read by review_pr, NoText before
    md_exists,      \* CLAUDE.md exists beside the script
    dry_run,        \* args.dry_run
    pr_files,       \* pull_request.get_files()
    file_infos,     \* gather_pr_context's result
    limit,          \* the character budget the batching loop compares with
    i,              \* index of the next file of the batching loop
    batches,        \* review_in_batches: batches
    current_batch,  \* review_in_batches: current_batch
    current_size,   \* review_in_batches: current_size
    batch_index,    \* index of the next batch to invoke (1-based)
    invoked,        \* the batch indices invoke_claude was called for, in order
    all_comments,   \* review_in_batches: all_comments
    summaries,      \* review_in_batches: summaries
    result,         \* review_in_batches' return value, or the last invoke_claude's
    valid_files,    \* review_pr: valid_files
    comments,       \* validate_comments' result
    summary,        \* review_pr: summary
    api_calls,      \* hosting-platform calls made by post_review, in order
    reviews,        \* the create_review calls made: [body, comments]
    log,            \* what the dry run wrote to the logger
    exc,            \* the exception that is propagating, "" when none
    exit_code       \* main's return value, -1 while running

vars == <<pc, token, claude_md, md_exists, dry_run, pr_files, file_infos, limit, i,
          batches, current_batch, current_size, batch_index, invoked,
          all_comments, summaries, result, valid_files, comments, summary,
          api_calls, reviews, log, exc, exit_code>>

env == <<token, md_exists, dry_run, limit>>
fetching == <<pr_files, file_infos>>
planning == <<i, batches, current_batch, current_size>>
merging == <<batch_index, all_comments, summaries>>
validating == <<valid_files, comments, summary>>
posting == <<reviews, log>>

(***************************************************************************)
(* Bounds of the model.                                                    *)
(***************************************************************************)
MaxFiles == 4       \* files of a pull request (batch planner on its own)
MaxPatch == 3       \* longest patch, in characters (batch planner on its own)
MaxLimit == 3       \* largest budget (batch planner on its own)
MaxRunFiles == 3    \* files of a pull request in a whole run
MaxComments == 2    \* raw comments handed to validate_comments on its own
MaxTextLen == 5     \* tokens of a result text handed to invoke_claude on its own

(***************************************************************************)
(* Program constants.                                                      *)
(***************************************************************************)
BATCH_CHAR_LIMIT == 150000

\* ------------------------------------------------------------------ texts
Ch(s) == [t |-> "ch", v |-> s]
Doc(j) == [t |-> "doc", v |-> j]
Str(s) == <<Ch(s)>>

SIGNATURE == Str("\n\n---\n*Review by Claude*")

\* The characters \s matches and str.strip() removes.
IsSpace(tok) == tok.t = "ch" /\ tok.v \in {" ", "\n"}

RECURSIVE LStrip(_)
LStrip(text) ==
    IF text # <<>> /\ IsSpace(Head(text)) THEN LStrip(Tail(text)) ELSE text

RECURSIVE RStrip(_)
RStrip(text) ==
    IF text # <<>> /\ IsSpace(text[Len(text)])
    THEN RStrip(SubSeq(text, 1, Len(text) - 1))
    ELSE text

\* str.strip()
Strip(text) == RStrip(LStrip(text))

RECURSIVE Concat(_)
Concat(seqs) == IF seqs = <<>> THEN <<>> ELSE Head(seqs) \o Concat(Tail(seqs))

RECURSIVE SumSeq(_)
SumSeq(ns) == IF ns = <<>> THEN 0 ELSE Head(ns) + SumSeq(Tail(ns))

\* sep.join(texts)
RECURSIVE Join(_, _)
Join(sep, texts) ==
    IF texts = <<>> THEN <<>>
    ELSE IF Len(texts) = 1 THEN Head(texts)
    ELSE Head(texts) \o sep \o Join(sep, Tail(texts))

\* ----------------------------------------------------------- JSON values
JStr(text) == [t |-> "str", v |-> text]
JInt(n) == [t |-> "int", v |-> n]
JBool(b) == [t |-> "bool", v |-> b]
JNull == [t |-> "null", v |-> 0]
JList(items) == [t |-> "list", v |-> items]
JObj(fields) == [t |-> "obj", v |-> fields]

\* dict.get(key, default)
Get(d, key, default) == IF key \in DOMAIN d.v THEN d.v[key] ELSE default

\* Python's truth value of a JSON value.
Truthy(j) ==
    CASE j.t = "str" -> j.v # <<>>
      [] j.t = "int" -> j.v # 0
      [] j.t = "bool" -> j.v
      [] j.t = "null" -> FALSE
      [] j.t = "list" -> j.v # <<>>
      [] j.t = "obj" -> DOMAIN j.v # {}

Ok(val) == [ok |-> TRUE, val |-> val]
Raise(name) == [ok |-> FALSE, exc |-> name]

NoText == <<>>
NoResult == JNull

\* ---------------------------------------------------------------- files
\* A file of gather_pr_context: the patch is kept as its length, the only
\* thing of it the batching loop reads.
FileInfo(name, size) == [filename |-> name, patch |-> size]

PatchLen(info) == info.patch

PatchSizes(batch) == [k \in 1..Len(batch) |-> PatchLen(batch[k])]

BatchSize(batch) == SumSeq(PatchSizes(batch))

\* ----------------------------------------------- review_in_batches: plan
\* lines 300-305: no file, no batch; otherwise the loop starts empty
EnterReviewInBatches ==
    /\ pc = "review_in_batches"
    /\ IF file_infos = <<>>
       THEN /\ result' = JObj([comments |-> JList(<<>>),
                               summary |-> JStr(Str("No reviewable files in this PR."))])
            /\ pc' = "validate"
            /\ UNCHANGED planning
       ELSE /\ i' = 1
            /\ batches' = <<>>
            /\ current_batch' = <<>>
            /\ current_size' = 0
            /\ pc' = "plan"
            /\ UNCHANGED result
    /\ UNCHANGED <<env, claude_md, fetching, merging, invoked, validating, api_calls,
                   posting, exc, exit_code>>

\* Mutants of line 309: the test without "current_batch and", the test
\* that forgets the running total, and the test with >= for >.
CloseBeforeAdding_NoEmptyTest(batch, size, patch_size, lim) ==
    size + patch_size > lim

CloseBeforeAdding_IgnoresTotal(batch, size, patch_size, lim) ==
    batch # <<>> /\ patch_size > lim

CloseBeforeAdding_AtLimit(batch, size, patch_size, lim) ==
    batch # <<>> /\ size + patch_size >= lim

\* line 309: the test that closes the current batch before a file is added
CloseBeforeAdding(batch, size, patch_size, lim) ==
    batch # <<>> /\ size + patch_size > lim

\* lines 307-314: one iteration of the batching loop
BatchLoop ==
    /\ pc = "plan"
    /\ i <= Len(file_infos)
    /\ LET info == file_infos[i]
           patch_size == PatchLen(info)
           close == CloseBeforeAdding(current_batch, current_size, patch_size, limit)
       IN /\ batches' = IF close THEN Append(batches, current_batch) ELSE batches
          /\ current_batch' = Append(IF close THEN <<>> ELSE current_batch, info)
          /\ current_size' = (IF close THEN 0 ELSE current_size) + patch_size
    /\ i' = i + 1
    /\ UNCHANGED <<pc, env, claude_md, fetching, merging, invoked, result, validating,
                   api_calls, posting, exc, exit_code>>

\* lines 316-326: the last batch is closed when it holds a file
BatchClose ==
    /\ pc = "plan"
    /\ i > Len(file_infos)
    /\ batches' = IF current_batch # <<>> THEN Append(batches, current_batch)
                  ELSE batches
    /\ batch_index' = 1
    /\ all_comments' = <<>>
    /\ summaries' = <<>>
    /\ pc' = "invoke"
    /\ UNCHANGED <<env, claude_md, fetching, i, current_batch, current_size, invoked,
                   result, validating, api_calls, posting, exc, exit_code>>

\* --------------------------------------------------------- invoke_claude
\* json.loads(text): the text holds one JSON document, with optional
\* whitespace around it; anything else is a JSONDecodeError.
JsonLoads(text) ==
    LET s == Strip(text)
    IN IF Len(s) = 1 /\ s[1].t = "doc" THEN Ok(s[1].v)
       ELSE Raise("JSONDecodeError")

\* The code-fence markers: <fence> stands for three backquotes.
FenceJson == Ch("<fence>json")
Fence == Ch("<fence>")

\* Mutant of line 289: the opening fence is left in place.
StripFenceOpen_Never(text) == text

\* line 289: re.sub(r"^<fence>json\s*", "", text)
StripFenceOpen(text) ==
    IF text # <<>> /\ Head(text) = FenceJson THEN LStrip(Tail(text)) ELSE text

\* line 290: re.sub(r"\s*<fence>$", "", text)
StripFenceClose(text) ==
    IF text # <<>> /\ text[Len(text)] = Fence
    THEN RStrip(SubSeq(text, 1, Len(text) - 1))
    ELSE text

\* lines 289-291: the result text, fences removed, parsed as JSON
ParseResultText(result_text) ==
    JsonLoads(StripFenceClose(StripFenceOpen(Strip(result_text))))

\* lines 276-283: the error envelope; every path raises
RaiseEnvelopeError(error_msg) ==
    CASE error_msg.t = "str" -> Raise("RuntimeError")
      [] error_msg.t \in {"list", "obj"} -> Raise("AttributeError")
      [] OTHER -> Raise("TypeError")

\* lines 285-291: the result payload of a response that carries no error
ParsePayload(result_text) ==
    IF ~Truthy(result_text) THEN Raise("RuntimeError")
    ELSE IF result_text.t # "str" THEN Raise("AttributeError")
    ELSE ParseResultText(result_text.v)

\* lines 274-291: the CLI stdout to the review result
ParseResponse(stdout) ==
    LET loaded == JsonLoads(stdout)
    IN IF ~loaded.ok THEN loaded
       ELSE IF loaded.val.t # "obj" THEN Raise("AttributeError")
       ELSE IF Truthy(Get(loaded.val, "is_error", JNull))
            THEN RaiseEnvelopeError(Get(loaded.val, "result", JStr(Str("unknown"))))
       ELSE ParsePayload(Get(loaded.val, "result", JStr(<<>>)))

\* What the external process did: proc.found (the binary exists),
\* proc.timed_out (subprocess.run hit its timeout), proc.returncode,
\* proc.stdout.
Proc(found, timed_out, returncode, stdout) ==
    [found |-> found, timed_out |-> timed_out, returncode |-> returncode,
     stdout |-> stdout]

\* lines 218-291
InvokeClaude(proc) ==
    IF ~proc.found THEN Raise("RuntimeError")
    ELSE IF proc.timed_out THEN Raise("TimeoutExpired")
    ELSE IF proc.returncode # 0 THEN Raise("RuntimeError")
    ELSE ParseResponse(proc.stdout)

\* ---------------------------------------------- review_in_batches: merge
RECURSIVE SetToSeq(_)
SetToSeq(S) ==
    IF S = {} THEN <<>>
    ELSE LET x == CHOOSE y \in S : TRUE IN <<x>> \o SetToSeq(S \ {x})

\* list(x), as list.extend(x) iterates x: a string gives its characters, a
\* dict its keys (in an order the model fixes), a scalar raises TypeError
Iterate(x) ==
    CASE x.t = "list" -> Ok(x.v)
      [] x.t = "str" -> Ok([k \in 1..Len(x.v) |-> JStr(<<x.v[k]>>)])
      [] x.t = "obj" ->
           LET keys == SetToSeq(DOMAIN x.v)
           IN Ok([k \in 1..Len(keys) |-> JStr(Str(keys[k]))])
      [] OTHER -> Raise("TypeError")

\* lines 337-338: [ok, all_comments, summaries] after one batch's result
MergeResult(res, acc_comments, acc_summaries) ==
    IF res.t # "obj" THEN Raise("AttributeError")
    ELSE LET more == Iterate(Get(res, "comments", JList(<<>>)))
         IN IF ~more.ok THEN more
            ELSE [ok |-> TRUE,
                  all_comments |-> acc_comments \o more.val,
                  summaries |-> Append(acc_summaries, Get(res, "summary", JStr(<<>>)))]

AllStr(js) == \A k \in 1..Len(js) : js[k].t = "str"

\* lines 340-341
Aggregate(acc_comments, acc_summaries) ==
    IF Len(acc_summaries) > 1
    THEN IF AllStr(acc_summaries)
         THEN Ok(JObj([comments |-> JList(acc_comments),
                       summary |-> JStr(Join(Str("\n\n"),
                           [k \in 1..Len(acc_summaries) |-> acc_summaries[k].v]))]))
         ELSE Raise("TypeError")
    ELSE Ok(JObj([comments |-> JList(acc_comments), summary |-> acc_summaries[1]]))

\* ------------------------------------------------------ validate_comments
ReviewComment(path, line, body) == [path |-> path, line |-> line, body |-> body]

\* isinstance(line, int): bool is a subclass of int
IsInstanceInt(line) == line.t \in {"int", "bool"}

\* int(line), for the comparison of line 357
AsInt(line) == IF line.t = "bool" THEN (IF line.v THEN 1 ELSE 0) ELSE line.v

\* lines 350-364, one comment: Ok(<<>>) when dropped, Ok(<<c>>) when kept
ValidateOne(comment, files) ==
    IF comment.t # "obj" THEN Raise("AttributeError")
    ELSE LET path == Get(comment, "path", JStr(<<>>))
             line == Get(comment, "line", JNull)
             body == Get(comment, "body", JStr(<<>>))
         IN IF path.t \in {"list", "obj"} THEN Raise("TypeError")
            ELSE IF ~(path.t = "str" /\ path.v \in files) THEN Ok(<<>>)
            ELSE IF ~IsInstanceInt(line) \/ AsInt(line) < 1 THEN Ok(<<>>)
            ELSE IF body.t # "str" THEN Raise("AttributeError")
            ELSE IF Strip(body.v) = <<>> THEN Ok(<<>>)
            ELSE Ok(<<ReviewComment(path.v, line, body.v)>>)

\* lines 344-365
RECURSIVE ValidateFrom(_, _, _)
ValidateFrom(raw, files, validated) ==
    IF raw = <<>> THEN Ok(validated)
    ELSE LET one == ValidateOne(Head(raw), files)
         IN IF ~one.ok THEN one
            ELSE ValidateFrom(Tail(raw), files, validated \o one.val)

ValidateComments(raw, files) == ValidateFrom(raw, files, <<>>)

\* ------------------------------------------------------------ post_review
\* lines 382-391
ReviewComments(cs) ==
    [k \in 1..Len(cs) |->
        [path |-> cs[k].path, line |-> cs[k].line, side |-> "RIGHT",
         body |-> cs[k].body \o SIGNATURE]]

\* Mutant of line 394: the summary is attached whatever the comments.
ReviewBody_AlwaysSummary(review_comments, summ) ==
    IF summ.t # "str" THEN Raise("TypeError") ELSE Ok(summ.v \o SIGNATURE)

\* line 394
ReviewBody(review_comments, summ) ==
    IF review_comments # <<>> THEN Ok(<<>>)
    ELSE IF summ.t # "str" THEN Raise("TypeError")
    ELSE Ok(summ.v \o SIGNATURE)

\* lines 375-379: what the dry run logs
DryRunLog(cs, summ) ==
    <<[summary |-> summ]>> \o [k \in 1..Len(cs) |-> [comment |-> cs[k]]]
        \o <<[total |-> Len(cs)]>>

\* Mutant of lines 374-380: the dry run posts like a live run.
PostReview_PostsInDryRun(cs, summ, dry, commits_ok, create_ok) ==
    [exc |-> IF commits_ok /\ create_ok THEN "" ELSE "GithubException",
     calls |-> IF commits_ok THEN <<"get_commits", "create_review">>
               ELSE <<"get_commits">>,
     reviews |-> IF commits_ok
                 THEN <<[body |-> <<>>, comments |-> ReviewComments(cs)]>>
                 ELSE <<>>,
     log |-> <<>>]

\* lines 368-407. commits_ok: get_commits answered with a non-empty list;
\* create_ok: create_review was accepted.  The effects of the call:
\* [exc, calls, reviews, log].
PostReview(cs, summ, dry, commits_ok, create_ok) ==
    IF dry
    THEN [exc |-> "", calls |-> <<>>, reviews |-> <<>>, log |-> DryRunLog(cs, summ)]
    ELSE LET review_comments == ReviewComments(cs)
             body == ReviewBody(review_comments, summ)
         IN IF ~body.ok
            THEN [exc |-> body.exc, calls |-> <<>>, reviews |-> <<>>, log |-> <<>>]
            ELSE IF ~commits_ok
            THEN [exc |-> "GithubException", calls |-> <<"get_commits">>,
                  reviews |-> <<>>, log |-> <<>>]
            ELSE [exc |-> IF create_ok THEN "" ELSE "GithubException",
                  calls |-> <<"get_commits", "create_review">>,
                  reviews |-> <<[body |-> body.val, comments |-> review_comments]>>,
                  log |-> <<>>]

\* ------------------------------------------------------- inputs of a run
\* All sequences of at most n elements of S.
SeqsUpTo(S, n) == UNION {[1..m -> S] : m \in 0..n}

\* Those without repetition.
SeqsNoRep(S, n) ==
    {q \in SeqsUpTo(S, n) : \A a, b \in 1..Len(q) : a # b => q[a] # q[b]}

\* The guidelines text of CLAUDE.md.
Guidelines == Str("# Guidelines")

\* The files a pull request of the model may hold.  The model has no file
\* that should_review_file skips; c.py is a file without a patch.
RunFiles ==
    {FileInfo(Str("a.py"), 1), FileInfo(Str("d.py"), 2),
     FileInfo(Str("b.py"), BATCH_CHAR_LIMIT), FileInfo(Str("c.py"), 0)}

\* What the model may have answered.
GoodComment ==
    JObj([path |-> JStr(Str("a.py")), line |-> JInt(5), body |-> JStr(Str("bug"))])
UnknownFileComment ==
    JObj([path |-> JStr(Str("zzz.py")), line |-> JInt(1), body |-> JStr(Str("x"))])
Payload(cs, summ) == JObj([comments |-> cs, summary |-> summ])
GoodPayload == Payload(JList(<<GoodComment, UnknownFileComment>>), JStr(Str("one issue")))
RunPayloads ==
    {Payload(JList(<<>>), JStr(Str("looks good"))),
     GoodPayload,
     Payload(JStr(Str("none")), JStr(Str("looks good"))),
     Payload(JList(<<>>), JNull),
     JObj([summary |-> JStr(Str("looks good"))]),
     JObj([comments |-> JList(<<GoodComment>>)]),
     JList(<<GoodComment>>)}

Envelope(is_error, res) == JObj([is_error |-> JBool(is_error), result |-> res])

RunStdouts ==
    {<<Doc(Envelope(FALSE, JStr(<<Doc(p)>>)))>> : p \in RunPayloads} \cup
    {<<Doc(Envelope(FALSE, JStr(<<>>)))>>,
     <<Doc(Envelope(FALSE, JStr(Str("I reviewed the diff."))))>>,
     <<Doc(Envelope(TRUE, JStr(Str("Credit balance is too low"))))>>,
     Str("Killed")}

RunProcs ==
    {Proc(FALSE, FALSE, 0, <<>>), Proc(TRUE, TRUE, 0, <<>>), Proc(TRUE, FALSE, 1, <<>>)}
        \cup {Proc(TRUE, FALSE, 0, out) : out \in RunStdouts}

\* ------------------------------------------------------------------- main
\* lines 478-480
CheckToken ==
    /\ pc = "main"
    /\ IF token
       THEN pc' = "review_pr" /\ UNCHANGED exit_code
       ELSE pc' = "exit" /\ exit_code' = 1
    /\ UNCHANGED <<env, claude_md, fetching, planning, merging, invoked, result,
                   validating, api_calls, posting, exc>>

\* Mutant of lines 411-412: a missing file is replaced by a placeholder.
ReadGuidelines_Placeholder ==
    /\ pc = "review_pr"
    /\ claude_md' = IF md_exists THEN Guidelines ELSE Str("(no specific guidelines)")
    /\ pc' = "fetch"
    /\ UNCHANGED <<env, fetching, planning, merging, invoked, result, validating,
                   api_calls, posting, exc, exit_code>>

\* lines 411-412: Path.read_text raises FileNotFoundError on a missing file
ReadGuidelines ==
    /\ pc = "review_pr"
    /\ IF md_exists
       THEN claude_md' = Guidelines /\ pc' = "fetch" /\ UNCHANGED exc
       ELSE exc' = "FileNotFoundError" /\ pc' = "except" /\ UNCHANGED claude_md
    /\ UNCHANGED <<env, fetching, planning, merging, invoked, result, validating,
                   api_calls, posting, exit_code>>

\* lines 414-418 and 146: the pull request and its files are fetched
FetchPullRequest ==
    /\ pc = "fetch"
    /\ \E ok \in BOOLEAN, files \in SeqsNoRep(RunFiles, MaxRunFiles) :
          IF ok
          THEN /\ pr_files' = files
               /\ api_calls' = api_calls \o <<"get_pull", "get_files">>
               /\ pc' = "gather"
               /\ UNCHANGED exc
          ELSE /\ api_calls' = Append(api_calls, "get_pull")
               /\ exc' = "GithubException"
               /\ pc' = "except"
               /\ UNCHANGED pr_files
    /\ UNCHANGED <<env, claude_md, file_infos, planning, merging, invoked, result,
                   validating, posting, exit_code>>

\* line 150: a file with no patch is skipped
HasPatch(pr_file) == PatchLen(pr_file) > 0

\* lines 144-160 and 420-425
GatherPrContext ==
    /\ pc = "gather"
    /\ file_infos' = SelectSeq(pr_files, HasPatch)
    /\ pc' = IF file_infos' = <<>> THEN "return" ELSE "review_in_batches"
    /\ UNCHANGED <<env, claude_md, pr_files, planning, merging, invoked, result,
                   validating, api_calls, posting, exc, exit_code>>

\* Mutant of lines 328-336: a batch whose invocation fails is skipped.
Invoke_SkipsFailedBatch(procs) ==
    /\ pc = "invoke"
    /\ batch_index <= Len(batches)
    /\ \E proc \in procs :
          LET r == InvokeClaude(proc)
          IN /\ invoked' = Append(invoked, [batch |-> batch_index, proc |-> proc])
             /\ IF r.ok
                THEN result' = r.val /\ pc' = "merge" /\ UNCHANGED merging
                ELSE /\ batch_index' = batch_index + 1
                     /\ summaries' = Append(summaries, JStr(<<>>))
                     /\ UNCHANGED <<pc, result, all_comments>>
    /\ UNCHANGED <<env, claude_md, fetching, planning, validating, api_calls,
                   posting, exc, exit_code>>

\* lines 328-336: the next batch is sent to the CLI, which behaves as one
\* of procs
Invoke(procs) ==
    /\ pc = "invoke"
    /\ batch_index <= Len(batches)
    /\ \E proc \in procs :
          LET r == InvokeClaude(proc)
          IN /\ invoked' = Append(invoked, [batch |-> batch_index, proc |-> proc])
             /\ IF r.ok
                THEN result' = r.val /\ pc' = "merge" /\ UNCHANGED exc
                ELSE exc' = r.exc /\ pc' = "except" /\ UNCHANGED result
    /\ UNCHANGED <<env, claude_md, fetching, planning, merging, validating, api_calls,
                   posting, exit_code>>

InvokeBatch == Invoke(RunProcs)

\* lines 337-338
MergeBatch ==
    /\ pc = "merge"
    /\ LET m == MergeResult(result, all_comments, summaries)
       IN IF m.ok
          THEN /\ all_comments' = m.all_comments
               /\ summaries' = m.summaries
               /\ batch_index' = batch_index + 1
               /\ pc' = "invoke"
               /\ UNCHANGED exc
          ELSE /\ exc' = m.exc
               /\ pc' = "except"
               /\ UNCHANGED merging
    /\ UNCHANGED <<env, claude_md, fetching, planning, invoked, result, validating,
                   api_calls, posting, exit_code>>

\* lines 340-341
ReturnAggregate ==
    /\ pc = "invoke"
    /\ batch_index > Len(batches)
    /\ LET a == Aggregate(all_comments, summaries)
       IN IF a.ok
          THEN result' = a.val /\ pc' = "validate" /\ UNCHANGED exc
          ELSE exc' = a.exc /\ pc' = "except" /\ UNCHANGED result
    /\ UNCHANGED <<env, claude_md, fetching, planning, merging, invoked, validating,
                   api_calls, posting, exit_code>>

\* lines 434-436
Validate ==
    /\ pc = "validate"
    /\ valid_files' = {file_infos[k].filename : k \in 1..Len(file_infos)}
    /\ LET v == ValidateComments(result.v.comments.v, valid_files')
       IN IF v.ok
          THEN /\ comments' = v.val
               /\ summary' = Get(result, "summary", JStr(<<>>))
               /\ pc' = "post"
               /\ UNCHANGED exc
          ELSE /\ exc' = v.exc
               /\ pc' = "except"
               /\ UNCHANGED <<comments, summary>>
    /\ UNCHANGED <<env, claude_md, fetching, planning, merging, invoked, result,
                   api_calls, posting, exit_code>>

\* lines 438-443
Post ==
    /\ pc = "post"
    /\ \E commits_ok, create_ok \in BOOLEAN :
          LET e == PostReview(comments, summary, dry_run, commits_ok, create_ok)
          IN /\ api_calls' = api_calls \o e.calls
             /\ reviews' = reviews \o e.reviews
             /\ log' = log \o e.log
             /\ IF e.exc = ""
                THEN pc' = "return" /\ UNCHANGED exc
                ELSE exc' = e.exc /\ pc' = "except"
    /\ UNCHANGED <<env, claude_md, fetching, planning, merging, invoked, result,
                   validating, exit_code>>

\* lines 484-486
MainExcept ==
    /\ pc = "except"
    /\ exit_code' = 1
    /\ pc' = "exit"
    /\ UNCHANGED <<env, claude_md, fetching, planning, merging, invoked, result,
                   validating, api_calls, posting, exc>>

\* line 488
MainReturn ==
    /\ pc = "return"
    /\ exit_code' = 0
    /\ pc' = "exit"
    /\ UNCHANGED <<env, claude_md, fetching, planning, merging, invoked, result,
                   validating, api_calls, posting, exc>>

\* --------------------------------------------------------- specifications
\* What every run starts from, whatever its inputs.
Fresh ==
    /\ claude_md = NoText
    /\ pr_files = <<>>
    /\ i = 1
    /\ batches = <<>>
    /\ current_batch = <<>>
    /\ current_size = 0
    /\ batch_index = 1
    /\ invoked = <<>>
    /\ all_comments = <<>>
    /\ summaries = <<>>
    /\ valid_files = {}
    /\ api_calls = <<>>
    /\ reviews = <<>>
    /\ log = <<>>
    /\ exc = ""
    /\ exit_code = -1

\* A whole run of main().
Init ==
    /\ pc = "main"
    /\ token \in BOOLEAN
    /\ md_exists \in BOOLEAN
    /\ dry_run \in BOOLEAN
    /\ limit = BATCH_CHAR_LIMIT
    /\ file_infos = <<>>
    /\ result = NoResult
    /\ comments = <<>>
    /\ summary = JStr(<<>>)
    /\ Fresh

Next ==
    \/ CheckToken
    \/ ReadGuidelines
    \/ FetchPullRequest
    \/ GatherPrContext
    \/ EnterReviewInBatches
    \/ BatchLoop
    \/ BatchClose
    \/ InvokeBatch
    \/ MergeBatch
    \/ ReturnAggregate
    \/ Validate
    \/ Post
    \/ MainExcept
    \/ MainReturn

Spec == Init /\ [][Next]_vars

\* The batch planner on its own: review_in_batches is entered with any list
\* of files and any budget.
FileName(k) == [j \in 1..k |-> Ch("f")] \o <<Ch(".py")>>

FileLists ==
    {[k \in 1..Len(sizes) |-> FileInfo(FileName(k), sizes[k])] :
        sizes \in SeqsUpTo(0..MaxPatch, MaxFiles)}

InitBatch ==
    /\ pc = "review_in_batches"
    /\ token = TRUE
    /\ md_exists = TRUE
    /\ dry_run = FALSE
    /\ limit \in 0..MaxLimit
    /\ file_infos \in FileLists
    /\ result = NoResult
    /\ comments = <<>>
    /\ summary = JStr(<<>>)
    /\ Fresh

NextBatch ==
    \/ EnterReviewInBatches
    \/ BatchLoop
    \/ BatchClose

SpecBatch == InitBatch /\ [][NextBatch]_vars

\* invoke_claude on its own: one batch, and a CLI that exits with 0 and a
\* response that carries no error, whose result is any short text of fence
\* markers, whitespace and a JSON document, or an object.
TextTokens == {FenceJson, Fence, Ch("\n"), Doc(GoodPayload)}

InvokeResults ==
    {JStr(text) : text \in SeqsUpTo(TextTokens, MaxTextLen)} \cup {GoodPayload}

ProcWith(res) == Proc(TRUE, FALSE, 0, <<Doc(Envelope(FALSE, res))>>)

InvokeProcs == {ProcWith(res) : res \in InvokeResults}

InitInvoke ==
    /\ pc = "invoke"
    /\ token = TRUE
    /\ md_exists = TRUE
    /\ dry_run = FALSE
    /\ limit = BATCH_CHAR_LIMIT
    /\ file_infos = <<FileInfo(Str("a.py"), 1)>>
    /\ result = NoResult
    /\ comments = <<>>
    /\ summary = JStr(<<>>)
    /\ claude_md = Guidelines
    /\ pr_files = file_infos
    /\ i = 2
    /\ batches = <<file_infos>>
    /\ current_batch = file_infos
    /\ current_size = 1
    /\ batch_index = 1
    /\ invoked = <<>>
    /\ all_comments = <<>>
    /\ summaries = <<>>
    /\ valid_files = {}
    /\ api_calls = <<"get_pull", "get_files">>
    /\ reviews = <<>>
    /\ log = <<>>
    /\ exc = ""
    /\ exit_code = -1

InvokeAlone == Invoke(InvokeProcs)

NextInvoke == InvokeAlone \/ MainExcept

SpecInvoke == InitInvoke /\ [][NextInvoke]_vars

\* validate_comments on its own: any short list of raw comments whose
\* fields may be missing or of another type.
Absent == [t |-> "absent", v |-> 0]

RawComment(path, line, body) ==
    LET all == [path |-> path, line |-> line, body |-> body]
    IN JObj([k \in {f \in DOMAIN all : all[f] # Absent} |-> all[k]])

RawPaths == {Absent, JStr(Str("a.py")), JStr(Str("b.py")), JList(<<>>)}
RawLines == {Absent, JInt(0), JInt(5), JBool(TRUE), JStr(Str("5"))}
RawBodies ==
    {Absent, JStr(Str("bug")), JStr(<<Ch(" "), Ch("\n")>>),
     JStr(<<Ch(" "), Ch("bug"), Ch(" ")>>), JNull}

RawComments ==
    {RawComment(p, l, b) : p \in RawPaths, l \in RawLines, b \in RawBodies}

InitValidate ==
    /\ pc = "validate"
    /\ token = TRUE
    /\ md_exists = TRUE
    /\ dry_run = FALSE
    /\ limit = BATCH_CHAR_LIMIT
    /\ file_infos \in {<<FileInfo(Str("a.py"), 1)>>,
                       <<FileInfo(Str("a.py"), 1), FileInfo(Str("b.py"), 1)>>}
    /\ \E raw \in SeqsUpTo(RawComments, MaxComments) :
          result = Payload(JList(raw), JStr(Str("summary")))
    /\ comments = <<>>
    /\ summary = JStr(<<>>)
    /\ Fresh

NextValidate == Validate \/ MainExcept

SpecValidate == InitValidate /\ [][NextValidate]_vars

\* post_review on its own: any short list of validated comments, any
\* summary text, both modes.
PostComments ==
    {ReviewComment(Str("a.py"), JInt(5), Str("bug")),
     ReviewComment(Str("b.py"), JInt(1), Str("typo")),
     ReviewComment(Str("a.py"), JInt(9), <<Ch(" "), Ch("leak")>>)}

PostSummaries == {JStr(<<>>), JStr(Str("looks good")), JStr(<<Ch("two"), Ch("\n\n"), Ch("parts")>>)}

InitPost ==
    /\ pc = "post"
    /\ token = TRUE
    /\ md_exists = TRUE
    /\ dry_run \in BOOLEAN
    /\ limit = BATCH_CHAR_LIMIT
    /\ file_infos = <<FileInfo(Str("a.py"), 1), FileInfo(Str("b.py"), 1)>>
    /\ result = NoResult
    /\ comments \in SeqsUpTo(PostComments, MaxComments)
    /\ summary \in PostSummaries
    /\ Fresh

NextPost ==
    \/ Post
    \/ MainExcept
    \/ MainReturn

SpecPost == InitPost /\ [][NextPost]_vars

\* ----------------------------------------------------------------- claims
\* The batching loop of review_in_batches is over: the batches are planned,
\* or the list was empty and review_in_batches returned at line 301.
PlanDone == pc \in {"invoke", "validate"}

NoEmptyBatch == \A k \in 1..Len(batches) : batches[k] # <<>>

TotalPatch == BatchSize(file_infos)

\* C1: for every list of files and every limit, the batching loop never
\* produces an empty batch, and the batches' files, concatenated in batch
\* order, are exactly the input list (during the loop: the batches and the
\* open batch together are exactly the files seen so far).
C1_BatchesPartitionInput ==
    /\ pc = "plan" =>
          /\ NoEmptyBatch
          /\ Concat(batches) \o current_batch = SubSeq(file_infos, 1, i - 1)
    /\ PlanDone =>
          /\ NoEmptyBatch
          /\ Concat(batches) = file_infos

C1_Witness ==
    /\ pc = "invoke"
    /\ Len(file_infos) >= 3
    /\ Len(batches) >= 2
    /\ \E k \in 1..Len(batches) : Len(batches[k]) >= 2
    /\ \E k \in 1..Len(file_infos) : PatchLen(file_infos[k]) > limit

\* C2: every batch has a total patch length of at most the limit or is one
\* file, so a file whose own patch exceeds the limit is alone in its batch,
\* whatever precedes or follows it.
C2_OverLimitOnlyAlone ==
    PlanDone =>
        \A k \in 1..Len(batches) :
            /\ BatchSize(batches[k]) <= limit \/ Len(batches[k]) = 1
            /\ \A j \in 1..Len(batches[k]) :
                  PatchLen(batches[k][j]) > limit => Len(batches[k]) = 1

\* An oversized file between two files with an empty patch, alone.
C2_Witness ==
    /\ pc = "invoke"
    /\ \E k \in 2..(Len(file_infos) - 1) :
          /\ PatchLen(file_infos[k]) > limit
          /\ PatchLen(file_infos[k - 1]) = 0
          /\ PatchLen(file_infos[k + 1]) = 0
          /\ \E b \in 1..Len(batches) : batches[b] = <<file_infos[k]>>

\* C3 as stated: whenever the patch lengths sum to at most the limit, the
\* batching step produces exactly one batch.
C3_Original_FitsThenOneBatch ==
    (PlanDone /\ TotalPatch <= limit) => Len(batches) = 1

\* C3 as amended: a non-empty list whose patch lengths sum to at most the
\* limit gives exactly one batch; the empty list gives no batch.
C3_NonEmptyFitsThenOneBatch ==
    PlanDone =>
        /\ (file_infos # <<>> /\ TotalPatch <= limit) => Len(batches) = 1
        /\ file_infos = <<>> => Len(batches) = 0

C3_Witness ==
    /\ pc = "invoke"
    /\ Len(file_infos) >= 2
    /\ TotalPatch = limit
    /\ limit > 0
    /\ Len(batches) = 1

\* ---- validate_comments
\* What the claim keeps: the path is a known filename, the line an integer
\* of at least 1, the body not empty once trimmed.
HasText(j) == j.t = "str" /\ \E k \in 1..Len(j.v) : ~IsSpace(j.v[k])

Keeps(raw, known) ==
    /\ {"path", "line", "body"} \subseteq DOMAIN raw.v
    /\ raw.v.path.t = "str" /\ raw.v.path.v \in known
    /\ raw.v.line.t = "int" /\ raw.v.line.v >= 1
    /\ HasText(raw.v.body)

RECURSIVE KeptOf(_, _)
KeptOf(raws, known) ==
    IF raws = <<>> THEN <<>>
    ELSE (IF Keeps(Head(raws), known)
          THEN <<ReviewComment(Head(raws).v.path.v, Head(raws).v.line,
                               Head(raws).v.body.v)>>
          ELSE <<>>) \o KeptOf(Tail(raws), known)

KnownFilenames == {file_infos[k].filename : k \in 1..Len(file_infos)}

\* C4: for every sequence of raw comment records and every set of known
\* filenames, validate_comments returns without raising, and returns
\* exactly the records the claim keeps, in their order.
C4_ValidateNeverRaisesAndFilters ==
    pc # "validate" =>
        /\ exc = ""
        /\ comments = KeptOf(result.v.comments.v, KnownFilenames)

\* ---- post_review
Count(calls, name) == Cardinality({k \in 1..Len(calls) : calls[k] = name})

PostDone == pc \in {"return", "except", "exit"}

\* C5: the review a live post_review submits has the body summary +
\* SIGNATURE and no inline comment when there is no validated comment; with
\* one or more it has the empty body and one inline comment per validated
\* comment, in order, each body followed by SIGNATURE.  A live call that
\* returns has submitted one.
C5_LiveReviewBodyAndComments ==
    (PostDone /\ ~dry_run) =>
        /\ exc = "" => Len(reviews) = 1
        /\ \A r \in 1..Len(reviews) :
              /\ comments = <<>> =>
                    /\ reviews[r].body = summary.v \o SIGNATURE
                    /\ reviews[r].comments = <<>>
              /\ comments # <<>> =>
                    /\ reviews[r].body = <<>>
                    /\ Len(reviews[r].comments) = Len(comments)
                    /\ \A k \in 1..Len(comments) :
                          /\ reviews[r].comments[k].path = comments[k].path
                          /\ reviews[r].comments[k].line = comments[k].line
                          /\ reviews[r].comments[k].body = comments[k].body \o SIGNATURE

C5_Witness ==
    /\ pc = "exit"
    /\ ~dry_run
    /\ exit_code = 0
    /\ Len(comments) = 2
    /\ summary.v # <<>>
    /\ Len(reviews) = 1
    /\ reviews[1].body = <<>>

\* C10: a live post_review makes at most one create_review call, and exactly
\* one, carrying every inline comment, when it returns; a dry run makes no
\* call to the hosting platform, posts nothing and never fails.
C10_OneWriteLiveNoneDryRun ==
    PostDone =>
        /\ dry_run =>
              /\ api_calls = <<>>
              /\ reviews = <<>>
              /\ exc = ""
              /\ pc # "except"
              /\ pc = "exit" => exit_code = 0
        /\ ~dry_run =>
              /\ Count(api_calls, "create_review") <= 1
              /\ Len(reviews) = Count(api_calls, "create_review")
              /\ exc = "" =>
                    /\ Count(api_calls, "create_review") = 1
                    /\ Len(reviews[1].comments) = Len(comments)

C10_Witness ==
    /\ pc = "exit"
    /\ dry_run
    /\ exit_code = 0
    /\ Len(comments) = 2
    /\ Len(log) = 4
    /\ api_calls = <<>>

\* ---- the model invocation
HoldsDoc(text) == \E k \in 1..Len(text) : text[k].t = "doc"

DocOf(text) == text[CHOOSE k \in 1..Len(text) : text[k].t = "doc"].v

Exited0(proc) == proc.found /\ ~proc.timed_out /\ proc.returncode = 0

\* The CLI answered with a response envelope, and what it carries.
IsEnvelope(proc) ==
    Exited0(proc) /\ HoldsDoc(proc.stdout) /\ DocOf(proc.stdout).t = "obj"

IsErrorEnvelope(proc) ==
    IsEnvelope(proc) /\ Get(DocOf(proc.stdout), "is_error", JBool(FALSE)) = JBool(TRUE)

ResultOf(proc) == Get(DocOf(proc.stdout), "result", Absent)

\* The failures the claim lists: binary not found, time-out, non-zero exit,
\* a response or a result text that is not JSON, an error envelope.
InvocationFails(proc) ==
    \/ ~proc.found
    \/ proc.timed_out
    \/ proc.returncode # 0
    \/ ~HoldsDoc(proc.stdout)
    \/ IsErrorEnvelope(proc)
    \/ IsEnvelope(proc) /\ ResultOf(proc).t = "str" /\ ~HoldsDoc(ResultOf(proc).v)

\* C6: once the model invocation of a batch has failed, that invocation is
\* the last one of the run (no later batch, no retry), no review is posted,
\* not even the comments of earlier batches, and the process exits with 1.
C6_FailedInvocationAbortsRun ==
    \A k \in 1..Len(invoked) :
        InvocationFails(invoked[k].proc) =>
            /\ k = Len(invoked)
            /\ Len(summaries) = k - 1
            /\ reviews = <<>>
            /\ Count(api_calls, "create_review") = 0
            /\ log = <<>>
            /\ pc \in {"except", "exit"}
            /\ pc = "exit" => exit_code = 1

\* The second batch fails after the first one gave a comment.
C6_Witness ==
    /\ pc = "exit"
    /\ exit_code = 1
    /\ ~dry_run
    /\ Len(batches) >= 3
    /\ Len(invoked) = 2
    /\ ~InvocationFails(invoked[1].proc)
    /\ InvocationFails(invoked[2].proc)
    /\ all_comments # <<>>

\* The expected shape: an object with comments (array) and summary (string).
WellShaped(j) ==
    /\ j.t = "obj"
    /\ {"comments", "summary"} \subseteq DOMAIN j.v
    /\ j.v.comments.t = "list"
    /\ j.v.summary.t = "str"

\* A response without error whose payload is empty, is not JSON, or is JSON
\* of another shape.
BadPayload(proc) ==
    /\ IsEnvelope(proc)
    /\ ~IsErrorEnvelope(proc)
    /\ ~(/\ ResultOf(proc).t = "str"
         /\ HoldsDoc(ResultOf(proc).v)
         /\ WellShaped(DocOf(ResultOf(proc).v)))

\* C7: a response without error whose payload is empty or is not an object
\* with comments (array) and summary (string) makes the review of that batch
\* fail: nothing of it is merged and the run posts no review.  (While
\* review_in_batches still holds the value invoke_claude returned, at
\* "merge", nothing is decided.)
C7_BadPayloadIsFatal ==
    \A k \in 1..Len(invoked) :
        (BadPayload(invoked[k].proc) /\ ~(pc = "merge" /\ k = Len(invoked))) =>
            /\ exc # ""
            /\ Len(summaries) < k
            /\ reviews = <<>>
            /\ log = <<>>

\* ---- invoke_claude's result text
NoSpace(text) == SelectSeq(text, LAMBDA tok : ~IsSpace(tok))

\* The text is one JSON document, bare or between an opening and a closing
\* fence of the given kinds, with any whitespace around the parts.
Fenced(text, opening, closing) == NoSpace(text) = opening \o <<Doc(GoodPayload)>> \o closing

\* The forms invoke_claude accepts: the document, after "<fence>json" or
\* not, before "<fence>" or not.
BareOrJsonFenced(text) ==
    \E opening \in {<<>>, <<FenceJson>>}, closing \in {<<>>, <<Fence>>} :
        Fenced(text, opening, closing)

Returned(res) == invoked = <<[batch |-> 1, proc |-> ProcWith(res)]>>

\* The result payload of the response invoke_claude was given.
GivenResult == ResultOf(invoked[1].proc)

\* C8 as stated: for a response without error, invoke_claude returns the
\* review result when the payload is an already-parsed object of the
\* expected shape, and when it is text holding that JSON, with or without
\* code-fence markers ("<fence>json" before, "<fence>" after) around it.
C8_Original_ObjectOrTextReturned ==
    (invoked # <<>> /\ (GivenResult.t = "obj" \/ BareOrJsonFenced(GivenResult.v))) =>
        /\ pc = "merge"
        /\ result = GoodPayload

\* C8 as amended: invoke_claude returns the review result when the payload
\* is text holding that JSON, bare or with "<fence>json" before it and
\* "<fence>" after it; an already-parsed object and a text whose fence opens
\* without the json tag make it raise.
C8_JsonTextReturned ==
    invoked # <<>> =>
        /\ (GivenResult.t = "str" /\ BareOrJsonFenced(GivenResult.v)) =>
              pc = "merge" /\ result = GoodPayload /\ exc = ""
        /\ GivenResult.t = "obj" => exc = "AttributeError" /\ result = NoResult
        /\ (GivenResult.t = "str" /\ Fenced(GivenResult.v, <<Fence>>, <<Fence>>)) =>
              exc = "JSONDecodeError" /\ result = NoResult

C8_Witness ==
    /\ Returned(JStr(<<FenceJson, Ch("\n"), Doc(GoodPayload), Ch("\n"), Fence>>))
    /\ pc = "merge"
    /\ result = GoodPayload

\* ---- the guidelines document
PlaceholderGuidelines == Str("(no specific guidelines)")

\* C9 as stated: with no guidelines document the run does not fail on it: a
\* placeholder is the guidelines text and the review goes on.
C9_Original_PlaceholderSubstituted ==
    (~md_exists /\ token /\ pc \notin {"main", "review_pr"}) =>
        /\ claude_md = PlaceholderGuidelines
        /\ exc # "FileNotFoundError"

\* C9 as amended: with no guidelines document the run fails: no text is
\* substituted, nothing is fetched, invoked, logged or posted, and the
\* process exits with 1.
C9_MissingGuidelinesAbortsRun ==
    ~md_exists =>
        /\ claude_md = NoText
        /\ pc \in {"main", "review_pr", "except", "exit"}
        /\ api_calls = <<>>
        /\ invoked = <<>>
        /\ reviews = <<>>
        /\ log = <<>>
        /\ pc = "exit" => exit_code = 1

C9_Witness ==
    /\ ~md_exists
    /\ token
    /\ pc = "exit"
    /\ exc = "FileNotFoundError"
    /\ exit_code = 1

====
